---------------------------- MODULE Spec2Model ----------------------------
(***************************************************************************)
(* A model of MirrorFusion/examples/brushnet/scripts/hdf5extract.py: the   *)
(* key classifier (key_matches), the kind-dispatch renderer (vis_data),    *)
(* the per-file driver (vis_file), the grid compositor (create_image_grid) *)
(* and the command line driver (cli).                                      *)
(*                                                                         *)
(* Python strings are sequences of one-character strings, so that          *)
(* matching, slicing, concatenation and formatting are computed and not    *)
(* assumed.                                                                *)
(***************************************************************************)
EXTENDS Integers, Sequences, FiniteSets, TLC

VARIABLES
    op,     \* the function that was called last ("init" before any call)
    args,   \* the arguments of that call
    ret,    \* what the call returned or raised
    world   \* pyplot's figures, the files on disk and the record of the run

vars == <<op, args, ret, world>>

(***************************************************************************)
(* Bounds of the model.                                                    *)
(***************************************************************************)
MaxKeyLen   == 3    \* longest generated key over the alphabet {a, b}
MaxPats     == 2    \* longest generated pattern list
MaxChannels == 3    \* most channels of an array handed to vis_data
MaxCalls    == 2    \* longest sequence of vis_data calls
MaxFileCalls == 1   \* longest sequence of vis_file calls
MaxCount    == 2    \* largest --count given to cli
ImgH        == 4    \* height of the arrays of the model
ImgW        == 6    \* width of the arrays of the model

(***************************************************************************)
(* Python values.                                                          *)
(***************************************************************************)
None == -1          \* Python's None where an index (>= 0) is expected

RECURSIVE SeqsUpTo(_, _)
SeqsUpTo(S, n) ==
    IF n = 0 THEN {<<>>}
    ELSE LET shorter == SeqsUpTo(S, n - 1)
         IN  shorter \cup {Append(s, x) : s \in shorter, x \in S}

Range(s) == {s[i] : i \in 1..Len(s)}

(***************************************************************************)
(* The default pattern lists, lines 18-26.                                 *)
(***************************************************************************)
s_colors       == <<"c","o","l","o","r","s">>
s_normals      == <<"n","o","r","m","a","l","s">>
s_diffuse      == <<"d","i","f","f","u","s","e">>
s_nocs         == <<"n","o","c","s">>
s_forward_flow == <<"f","o","r","w","a","r","d","_","f","l","o","w">>
s_backward_flow == <<"b","a","c","k","w","a","r","d","_","f","l","o","w">>
s_segmap       == <<"s","e","g","m","a","p">>
s_any_segmaps  == <<".","*","_","s","e","g","m","a","p","s">>
s_segcolormap  == <<"s","e","g","c","o","l","o","r","m","a","p">>
s_distance     == <<"d","i","s","t","a","n","c","e">>
s_depth        == <<"d","e","p","t","h">>
s_stereo_depth == <<"s","t","e","r","e","o","-","d","e","p","t","h">>
s_category_id_segmaps ==
    <<"c","a","t","e","g","o","r","y","_","i","d","_","s","e","g","m","a","p","s">>

default_rgb_keys         == <<s_colors, s_normals, s_diffuse, s_nocs>>
default_flow_keys        == <<s_forward_flow, s_backward_flow>>
default_segmap_keys      == <<s_segmap, s_any_segmaps>>
default_segcolormap_keys == <<s_segcolormap>>
default_depth_keys       == <<s_distance, s_depth, s_stereo_depth>>
all_default_keys ==
    default_rgb_keys \o default_flow_keys \o default_segmap_keys
        \o default_segcolormap_keys \o default_depth_keys

(***************************************************************************)
(* re.fullmatch(pattern, key), line 60, for patterns made of literal       *)
(* characters, "." and a postfix "*": the backtracking match of the        *)
(* pattern against the key.  With full = FALSE the match may stop before   *)
(* the end of the key, which is re.match.                                  *)
(***************************************************************************)
AtomMatches(a, c) == a = "." \/ a = c

RECURSIVE Backtrack(_, _, _)
Backtrack(pattern, s, full) ==
    IF pattern = <<>> THEN (full => s = <<>>)
    ELSE IF Len(pattern) >= 2 /\ pattern[2] = "*"
    THEN \/ Backtrack(SubSeq(pattern, 3, Len(pattern)), s, full)
         \/ /\ s # <<>>
            /\ AtomMatches(pattern[1], s[1])
            /\ Backtrack(pattern, Tail(s), full)
    ELSE /\ s # <<>>
         /\ AtomMatches(pattern[1], s[1])
         /\ Backtrack(Tail(pattern), Tail(s), full)

re_match(pattern, key) == Backtrack(pattern, key, FALSE)

re_fullmatch(pattern, key) == Backtrack(pattern, key, TRUE)

(***************************************************************************)
(* key_matches, lines 55-63: the loop over enumerate(patterns), from       *)
(* index p, returning at the first pattern that matches.                   *)
(***************************************************************************)
RECURSIVE key_matches_loop(_, _, _)
key_matches_loop(key, patterns, p) ==
    IF p >= Len(patterns) THEN <<FALSE, None>>
    ELSE IF re_fullmatch(patterns[p + 1], key) THEN <<TRUE, p>>
    ELSE key_matches_loop(key, patterns, p + 1)

key_matches(key, patterns, return_index) ==
    LET r == key_matches_loop(key, patterns, 0)
    IN  IF return_index THEN r ELSE r[1]

(***************************************************************************)
(* Optional arguments: None is the empty tuple, a value x is <<x>>.        *)
(***************************************************************************)
NoneOpt == <<>>
Some(x) == <<x>>
IsNone(o) == o = <<>>
OrDefault(o, d) == IF o = <<>> THEN d ELSE o[1]
Truthy(o) == o # <<>> /\ o[1] # <<>>       \* "if save_to_file:" on None or a str

(***************************************************************************)
(* str methods and formatting used by the script.                          *)
(***************************************************************************)
Digits == <<"0","1","2","3","4","5","6","7","8","9">>

DigitValue(c) == (CHOOSE d \in 1..10 : Digits[d] = c) - 1

isdigit(s) == s # <<>> /\ \A i \in 1..Len(s) : s[i] \in Range(Digits)

RECURSIVE int(_)
int(s) ==
    IF s = <<>> THEN 0
    ELSE 10 * int(SubSeq(s, 1, Len(s) - 1)) + DigitValue(s[Len(s)])

RECURSIVE str(_)
str(n) == IF n < 10 THEN <<Digits[n + 1]>> ELSE str(n \div 10) \o <<Digits[(n % 10) + 1]>>

startswith(s, prefix) ==
    Len(s) >= Len(prefix) /\ SubSeq(s, 1, Len(prefix)) = prefix

RECURSIVE replace(_, _, _)
replace(s, old, new) ==
    IF s = <<>> THEN <<>>
    ELSE IF startswith(s, old) THEN new \o replace(SubSeq(s, Len(old) + 1, Len(s)), old, new)
    ELSE <<s[1]>> \o replace(Tail(s), old, new)

s_png      == <<".","p","n","g">>
s_channel_ == <<"c","h","a","n","n","e","l","_">>
s_in       == <<" ","i","n"," ">>
s_slash    == <<" ","/"," ">>
s_us       == <<"_">>

(***************************************************************************)
(* An HDF5 container: its datasets in the order keys() enumerates them.    *)
(* A dataset is [shape, legend]: the shape of its array and, for a legend  *)
(* key, the list json.loads decodes from its bytes (line 119); a legend    *)
(* record is the list of its (column, value) items in order.               *)
(***************************************************************************)
file_keys(f) == [i \in 1..Len(f) |-> f[i][1]]
file_has(f, key) == \E i \in 1..Len(f) : f[i][1] = key
file_get(f, key) == f[CHOOSE i \in 1..Len(f) : f[i][1] = key][2]

(***************************************************************************)
(* matplotlib.pyplot as the script uses it.  world.figs holds the open     *)
(* figures, oldest first, the current figure last; each entry is the       *)
(* number of images drawn on that figure.                                  *)
(***************************************************************************)
plt_figure(w) ==
    [w EXCEPT !.figs = Append(@, 0), !.created = @ + 1]

plt_gcf(w) == IF w.figs = <<>> THEN plt_figure(w) ELSE w

plt_title(w, text) ==
    LET v == plt_gcf(w) IN [v EXCEPT !.titles = Append(@, text)]

plt_imshow(w) ==
    LET v == plt_gcf(w)
    IN  [v EXCEPT !.figs[Len(v.figs)] = @ + 1, !.rendered = @ + 1]

plt_colorbar(w) == plt_gcf(w)

plt_imsave(w, fname) ==
    [w EXCEPT !.saved = Append(@, fname),
              !.disk = @ \cup {fname},
              !.rendered = @ + 1]

plt_close(w) ==
    [w EXCEPT !.figs = IF @ = <<>> THEN @ ELSE SubSeq(@, 1, Len(@) - 1)]

raise(w, e) == [w EXCEPT !.exc = e]

(***************************************************************************)
(* vis_data, lines 66-174.  a is the record of its arguments; a.data is    *)
(* the shape of the array, whose values only the renderer reads, and       *)
(* a.cv2 says whether "import cv2" succeeds during the call.               *)
(***************************************************************************)
rgb_keys_of(a)         == OrDefault(a.rgb_keys, default_rgb_keys)
flow_keys_of(a)        == OrDefault(a.flow_keys, default_flow_keys)
segmap_keys_of(a)      == OrDefault(a.segmap_keys, default_segmap_keys)
segcolormap_keys_of(a) == OrDefault(a.segcolormap_keys, default_segcolormap_keys)
depth_keys_of(a)       == OrDefault(a.depth_keys, default_depth_keys)

log_path(w, a, path) ==
    [w EXCEPT !.calls = Append(@, [key |-> a.key, file_label |-> a.file_label,
                                    save_to_file |-> a.save_to_file, path |-> path])]

\* lines 94-96
title_figure(w, a) ==
    IF key_matches(a.key, flow_keys_of(a) \o rgb_keys_of(a) \o depth_keys_of(a), FALSE)
    THEN plt_title(plt_figure(w), a.key \o s_in \o a.file_label)
    ELSE w

\* lines 99-109: flow_to_rgb imports cv2 (line 36) before anything is drawn
flow_path(w, a) ==
    IF ~a.cv2 THEN raise(w, "ImportError")
    ELSE IF IsNone(a.save_to_file) THEN plt_imshow(w)
    ELSE plt_close(plt_imsave(w, a.save_to_file[1]))

\* lines 122-124, over the items of segcolormap[0] from item i on
RECURSIVE collect_labels(_, _, _)
collect_labels(items, i, channel_labels) ==
    IF i > Len(items) THEN channel_labels
    ELSE LET colormap_key   == items[i][1]
             colormap_value == items[i][2]
         IN  IF startswith(colormap_key, s_channel_) /\ isdigit(colormap_value)
             THEN collect_labels(items, i + 1,
                    [n \in DOMAIN channel_labels \cup {int(colormap_value)} |->
                        IF n = int(colormap_value)
                        THEN SubSeq(colormap_key, Len(s_channel_) + 1, Len(colormap_key))
                        ELSE channel_labels[n]])
             ELSE collect_labels(items, i + 1, channel_labels)

no_labels == [n \in {} |-> <<>>]

\* the legend chosen by name (the first legend key) and not by position
find_channel_labels_first_key(a) ==
    IF 0 < Len(segcolormap_keys_of(a))
    THEN LET segcolormap_key == segcolormap_keys_of(a)[1]
         IN  IF ~IsNone(a.full_hdf5_data) /\ file_has(a.full_hdf5_data[1], segcolormap_key)
             THEN LET segcolormap == file_get(a.full_hdf5_data[1], segcolormap_key).legend
                  IN  IF Len(segcolormap) > 0
                      THEN collect_labels(segcolormap[1], 1, no_labels)
                      ELSE no_labels
             ELSE no_labels
    ELSE no_labels

\* lines 112-124
find_channel_labels(a) ==
    LET key_index == key_matches(a.key, segmap_keys_of(a), TRUE)[2]
    IN  IF key_index < Len(segcolormap_keys_of(a))
        THEN LET segcolormap_key == segcolormap_keys_of(a)[key_index + 1]
             IN  IF ~IsNone(a.full_hdf5_data) /\ file_has(a.full_hdf5_data[1], segcolormap_key)
                 THEN LET segcolormap == file_get(a.full_hdf5_data[1], segcolormap_key).legend
                      IN  IF Len(segcolormap) > 0
                          THEN collect_labels(segcolormap[1], 1, no_labels)
                          ELSE no_labels
                 ELSE no_labels
        ELSE no_labels

\* line 132, as the f-strings of lines 137 and 141 format it
channel_label(channel_labels, i) ==
    IF i \in DOMAIN channel_labels THEN channel_labels[i] ELSE str(i)

\* lines 127-128
channels_of(shape) == IF Len(shape) = 2 THEN 1 ELSE shape[3]

\* lines 130-145, from channel i on
RECURSIVE segmap_channels(_, _, _, _)
segmap_channels(w, a, channel_labels, i) ==
    IF i >= channels_of(a.data) THEN w
    ELSE LET label == channel_label(channel_labels, i)
             shown ==
                plt_imshow(plt_title(plt_figure(w),
                    a.key \o s_slash \o label \o s_in \o a.file_label))
             filename ==
                IF channels_of(a.data) > 1
                THEN replace(a.save_to_file[1], s_png, s_us \o label \o s_png)
                ELSE a.save_to_file[1]
         IN  segmap_channels(
                IF IsNone(a.save_to_file) THEN shown
                ELSE plt_close(plt_imsave(w, filename)),
                a, channel_labels, i + 1)

segmap_path(w, a) == segmap_channels(w, a, find_channel_labels(a), 0)

\* lines 147-162
depth_path(w, a) ==
    LET v == IF Len(a.data) = 3 /\ a.data[3] # 1
             THEN [w EXCEPT !.warned = @ + 1] ELSE w
    IN  IF IsNone(a.save_to_file) THEN plt_colorbar(plt_imshow(v))
        ELSE plt_close(plt_imsave(v, a.save_to_file[1]))

\* lines 163-168 and 169-174
rgb_path(w, a) ==
    IF IsNone(a.save_to_file) THEN plt_imshow(w)
    ELSE plt_close(plt_imsave(w, a.save_to_file[1]))

default_path(w, a) ==
    IF IsNone(a.save_to_file) THEN plt_imshow(w)
    ELSE plt_close(plt_imsave(w, a.save_to_file[1]))

\* the branch of the if/elif chain of lines 98-174 that runs
dispatch_rgb_first(a) ==
    IF      key_matches(a.key, rgb_keys_of(a), FALSE)    THEN "rgb"
    ELSE IF key_matches(a.key, flow_keys_of(a), FALSE)   THEN "flow"
    ELSE IF key_matches(a.key, segmap_keys_of(a), FALSE) THEN "segmap"
    ELSE IF key_matches(a.key, depth_keys_of(a), FALSE)  THEN "depth"
    ELSE "default"

dispatch(a) ==
    IF      key_matches(a.key, flow_keys_of(a), FALSE)   THEN "flow"
    ELSE IF key_matches(a.key, segmap_keys_of(a), FALSE) THEN "segmap"
    ELSE IF key_matches(a.key, depth_keys_of(a), FALSE)  THEN "depth"
    ELSE IF key_matches(a.key, rgb_keys_of(a), FALSE)    THEN "rgb"
    ELSE "default"

vis_data(w, a) ==
    LET v    == title_figure(w, a)
        path == dispatch(a)
    IN  CASE path = "flow"    -> flow_path(log_path(v, a, path), a)
          [] path = "segmap"  -> segmap_path(log_path(v, a, path), a)
          [] path = "depth"   -> depth_path(log_path(v, a, path), a)
          [] path = "rgb"     -> rgb_path(log_path(v, a, path), a)
          [] path = "default" -> default_path(log_path(v, a, path), a)

(***************************************************************************)
(* os.path and pathlib as the script uses them, on paths with "/" as the   *)
(* separator.                                                              *)
(***************************************************************************)
\* the index of the last c in s, 0 when there is none
last_index(s, c) ==
    IF \E i \in 1..Len(s) : s[i] = c
    THEN CHOOSE i \in 1..Len(s) : s[i] = c /\ \A j \in (i + 1)..Len(s) : s[j] # c
    ELSE 0

os_path_basename(path) == SubSeq(path, last_index(path, "/") + 1, Len(path))

os_path_dirname(path) ==
    LET i == last_index(path, "/")
    IN  IF i <= 1 THEN SubSeq(path, 1, i) ELSE SubSeq(path, 1, i - 1)

\* the index of the dot that starts the extension of a file name, 0 when it has none
ext_index(name) ==
    LET i == last_index(name, ".")
    IN  IF i = 0 \/ \A j \in 1..i : name[j] = "." THEN 0 ELSE i

\* os.path.splitext(name)[0] of a name without separators
splitext_root(name) ==
    IF ext_index(name) = 0 THEN name ELSE SubSeq(name, 1, ext_index(name) - 1)

os_path_join(a, b) ==
    IF b # <<>> /\ b[1] = "/" THEN b
    ELSE IF a = <<>> \/ a[Len(a)] = "/" THEN a \o b
    ELSE a \o <<"/">> \o b

\* Path(p).suffix and str(Path(p).with_suffix(""))
path_suffix(p) ==
    LET name == os_path_basename(p)
        i    == ext_index(name)
    IN  IF i = 0 \/ i = Len(name) THEN <<>> ELSE SubSeq(name, i, Len(name))

path_without_suffix(p) == SubSeq(p, 1, Len(p) - Len(path_suffix(p)))

s_left      == <<"_","l","e","f","t">>
s_right     == <<"_","r","i","g","h","t">>
s_left_lbl  == <<" ","(","l","e","f","t",")">>
s_right_lbl == <<" ","(","r","i","g","h","t",")">>

(***************************************************************************)
(* vis_file, lines 177-283.  a.fs maps a path to what is there: a file     *)
(* with its HDF5 content, or a directory; a path outside its domain does   *)
(* not exist.  The listing of the keys (lines 205-221) only prints.        *)
(***************************************************************************)
call_vis_data(w, a, key, img, data, file_label, save_to_file) ==
    vis_data(w, [key |-> key, data |-> img, full_hdf5_data |-> Some(data),
                 file_label |-> file_label,
                 rgb_keys |-> a.rgb_keys, flow_keys |-> a.flow_keys,
                 segmap_keys |-> a.segmap_keys,
                 segcolormap_keys |-> a.segcolormap_keys,
                 depth_keys |-> a.depth_keys,
                 save_to_file |-> save_to_file, cv2 |-> a.cv2])

\* lines 248-252: the name is built from the save_to_file of the iteration before
stereo_name(save_to_file, i) ==
    IF Truthy(save_to_file)
    THEN Some(path_without_suffix(save_to_file[1])
                \o (IF i = 0 THEN s_left ELSE s_right) \o path_suffix(save_to_file[1]))
    ELSE save_to_file

\* lines 246-265, from half i on
RECURSIVE stereo_loop(_, _, _, _, _, _, _)
stereo_loop(w, a, key, value, data, save_to_file, i) ==
    IF i >= value[1] \/ w.exc # "none" THEN w
    ELSE LET name == stereo_name(save_to_file, i)
         IN  stereo_loop(
                call_vis_data(w, a, key, Tail(value), data,
                    os_path_basename(a.path) \o (IF i = 0 THEN s_left_lbl ELSE s_right_lbl),
                    name),
                a, key, value, data, name, i + 1)

\* lines 224-279 for one key
vis_key(w, a, data, key) ==
    LET value == file_get(data, key).shape
        folder_name  == os_path_basename(os_path_dirname(a.path))
        base_name    == splitext_root(os_path_basename(a.path))
        new_file_name == folder_name \o s_us \o base_name \o s_us \o key \o s_png
        save_to_file ==
            IF ~IsNone(a.save_to_path)
            THEN Some(os_path_join(a.save_to_path[1], new_file_name))
            ELSE NoneOpt
    IN  IF Len(value) >= 3 /\ value[1] = 2
        THEN stereo_loop(w, a, key, value, data, save_to_file, 0)
        ELSE call_vis_data(w, a, key, value, data, os_path_basename(a.path), save_to_file)

\* lines 223-279, from key k of keys on; an exception leaves the loop
RECURSIVE vis_keys(_, _, _, _, _)
vis_keys(w, a, data, keys, k) ==
    IF k > Len(keys) \/ w.exc # "none" THEN w
    ELSE vis_keys(vis_key(w, a, data, keys[k]), a, data, keys, k + 1)

\* line 200
RECURSIVE select_keys(_, _)
select_keys(keys, keys_to_visualize) ==
    IF keys = <<>> THEN <<>>
    ELSE (IF key_matches(keys[1], keys_to_visualize, FALSE) THEN <<keys[1]>> ELSE <<>>)
            \o select_keys(Tail(keys), keys_to_visualize)

os_path_exists(fs, path) == path \in DOMAIN fs
os_path_isfile(fs, path) == path \in DOMAIN fs /\ fs[path].isfile

vis_file(w, a) ==
    LET v == IF ~IsNone(a.save_to_path) /\ a.save_to_path[1] \notin w.disk
             THEN [w EXCEPT !.disk = @ \cup {a.save_to_path[1]}]      \* os.makedirs
             ELSE w
        u == [v EXCEPT !.visited = Append(@, a.path)]
    IN  IF os_path_exists(a.fs, a.path) /\ os_path_isfile(a.fs, a.path)
        THEN LET data == a.fs[a.path].content
                 keys == IF ~IsNone(a.keys_to_visualize)
                         THEN select_keys(file_keys(data), a.keys_to_visualize[1])
                         ELSE file_keys(data)
             IN  vis_keys(u, a, data, keys, 1)
        ELSE u                                  \* lines 281, 283: a message is printed

(***************************************************************************)
(* create_image_grid, lines 286-325.  An image is [h, w, c, px]: its       *)
(* height, width, number of channels and the pixel values px[<<r, x, ch>>];*)
(* uint8 arithmetic is modulo 256.                                         *)
(***************************************************************************)
Pixels(h, w, c) == (1..h) \X (1..w) \X (1..c)

\* lines 293-294 and 313-314
strip_alpha(img) ==
    IF img.c = 4
    THEN [img EXCEPT !.c = 3, !.px = [q \in Pixels(img.h, img.w, 3) |-> img.px[q]]]
    ELSE img

image_max(img) ==
    CHOOSE m \in {img.px[q] : q \in DOMAIN img.px} :
        \A q \in DOMAIN img.px : img.px[q] <= m

\* lines 297-298 and 317-318
scale_if_normalized(img) ==
    IF image_max(img) <= 1
    THEN [img EXCEPT !.px = [q \in DOMAIN img.px |-> (img.px[q] * 255) % 256]]
    ELSE img

\* line 321: Image.resize((w, h)); the thumbnails of the model are of one
\* colour, which every resampling filter keeps, so the pixel is sampled
resize(img, w, h) ==
    [h |-> h, w |-> w, c |-> img.c,
     px |-> [q \in Pixels(h, w, img.c) |->
                img.px[<<1 + ((q[1] - 1) * img.h) \div h,
                         1 + ((q[2] - 1) * img.w) \div w, q[3]>>]]]

\* line 322, for thumbnail i (from 0) of images[1:]
place_thumbnail(grid, img, i, h, w) ==
    LET resized_img == resize(scale_if_normalized(strip_alpha(img)), w \div 3, h \div 3)
    IN  [grid EXCEPT !.px =
            [q \in DOMAIN grid.px |->
                IF /\ q[1] > h
                   /\ q[2] > i * (w \div 3)
                   /\ q[2] <= (i + 1) * (w \div 3)
                THEN resized_img.px[<<q[1] - h, q[2] - i * (w \div 3), q[3]>>]
                ELSE grid.px[q]]]

\* lines 311-322, from thumbnail i on
RECURSIVE place_thumbnails(_, _, _, _, _)
place_thumbnails(grid, images, i, h, w) ==
    IF i + 2 > Len(images) THEN grid
    ELSE place_thumbnails(place_thumbnail(grid, images[i + 2], i, h, w),
                          images, i + 1, h, w)

\* lines 292-322
image_grid(images) ==
    LET full_image == scale_if_normalized(strip_alpha(images[1]))
        h == full_image.h
        w == full_image.w
        grid == [h |-> h + h \div 3, w |-> w, c |-> 3,
                 px |-> [q \in Pixels(h + h \div 3, w, 3) |->
                            IF q[1] <= h THEN full_image.px[q] % 256 ELSE 255]]
    IN  place_thumbnails(grid, images, 0, h, w)

\* lines 286-325: the grid is saved to save_file
create_image_grid(w, images, save_file) ==
    [plt_imsave(w, save_file) EXCEPT !.grid = image_grid(images)]

(***************************************************************************)
(* cli, lines 328-414, after the arguments are parsed.  a.hdf5_files is    *)
(* what glob returns, sample what random.sample draws from it.             *)
(***************************************************************************)
s_grid_keys == <<s_colors, s_category_id_segmaps, s_depth, s_normals>>     \* line 406

\* plt.imread of a PNG that vis_data wrote: an RGBA image of floats; its
\* pixels are not modelled and read as 1.0
imread_png == [h |-> ImgH, w |-> ImgW, c |-> 4,
               px |-> [q \in Pixels(ImgH, ImgW, 4) |-> 1]]

\* lines 408-413, from key k of keys on
RECURSIVE read_images(_, _, _, _)
read_images(w, a, path, k) ==
    IF k > Len(s_grid_keys) \/ w.exc # "none" THEN w
    ELSE LET folder_name == os_path_basename(os_path_dirname(path))
             base_name   == splitext_root(os_path_basename(path))
             file_name   == folder_name \o s_us \o base_name \o s_us \o s_grid_keys[k] \o s_png
             image_file_path == os_path_join(a.save, file_name)
         IN  IF image_file_path \notin w.disk
             THEN raise(w, "FileNotFoundError")                         \* plt.imread
             ELSE read_images([w EXCEPT !.disk = @ \ {image_file_path}], \* os.remove
                              a, path, k + 1)

\* lines 388-414 for one path
cli_path(w, a, path) ==
    LET visited == vis_file(w, [path |-> path, fs |-> a.fs,
                                keys_to_visualize |-> Some(a.keys),
                                rgb_keys |-> a.rgb_keys, flow_keys |-> a.flow_keys,
                                segmap_keys |-> a.segmap_keys,
                                segcolormap_keys |-> a.segcolormap_keys,
                                depth_keys |-> a.depth_keys,
                                save_to_path |-> Some(a.save), cv2 |-> a.cv2])
        folder_name == os_path_basename(os_path_dirname(path))
        base_name   == splitext_root(os_path_basename(path))
        final_save_path == os_path_join(a.save, folder_name \o s_us \o base_name \o s_png)
        read == IF visited.exc # "none" THEN visited ELSE read_images(visited, a, path, 1)
    IN  IF read.exc # "none" THEN read
        ELSE create_image_grid(read, [k \in 1..Len(s_grid_keys) |-> imread_png],
                               final_save_path)

\* lines 387-414, from path k of paths on; an exception ends the run
RECURSIVE cli_paths(_, _, _, _)
cli_paths(w, a, paths, k) ==
    IF k > Len(paths) \/ w.exc # "none" THEN w
    ELSE cli_paths(cli_path(w, a, paths[k]), a, paths, k + 1)

\* lines 375-384: args.hdf5_paths after the input directory is looked at
hdf5_paths_of(a, sample) ==
    IF ~IsNone(a.input_dir)
    THEN IF Len(a.hdf5_files) < a.count
         THEN a.hdf5_paths                          \* line 381: a message is printed
         ELSE Some(sample)
    ELSE a.hdf5_paths

cli(w, a, sample) ==
    LET hdf5_paths == hdf5_paths_of(a, sample)
    IN  IF IsNone(hdf5_paths) THEN raise(w, "TypeError")     \* line 387: for path in None
        ELSE cli_paths(w, a, hdf5_paths[1], 1)

(***************************************************************************)
(* The state before anything is called: no figure is open, nothing was     *)
(* written.                                                                *)
(***************************************************************************)
NewWorld ==
    [figs |-> <<>>, created |-> 0, rendered |-> 0, ncalls |-> 0, modes |-> {},
     calls |-> <<>>, saved |-> <<>>, titles |-> <<>>, warned |-> 0,
     exc |-> "none", disk |-> {}, visited |-> <<>>, grid |-> <<>>]

\* a call starts with an empty record of what it did
BeginCall(w, mode) ==
    [w EXCEPT !.calls = <<>>, !.saved = <<>>, !.titles = <<>>, !.warned = 0,
              !.visited = <<>>, !.exc = "none", !.ncalls = @ + 1,
              !.modes = @ \cup {mode}]

(***************************************************************************)
(* key_matches called on its own.                                          *)
(***************************************************************************)
s_empty   == <<>>
s_dotstar == <<".","*">>
s_seg     == <<"s","e","g">>
s_segmaps == <<"s","e","g","m","a","p","s">>
s_x       == <<"x">>

PatternCatalogue ==
    { s_empty, <<"a">>, <<"b">>, <<"a","b">>, <<".">>, s_dotstar, <<"a","*">>,
      <<"a",".","*">>, <<".","*","b">>, <<"a","*","b">>, <<".",".">> }

KeyMatchesKeys ==
    SeqsUpTo({"a","b"}, MaxKeyLen)
        \cup {s_category_id_segmaps, s_segmap, s_seg, s_segmaps, s_colors, s_depth}

KeyMatchesPatterns ==
    SeqsUpTo(PatternCatalogue, MaxPats)
        \cup {default_rgb_keys, default_flow_keys, default_segmap_keys,
              default_segcolormap_keys, default_depth_keys, all_default_keys}

KeyMatchesArgs ==
    [key : KeyMatchesKeys, patterns : KeyMatchesPatterns, return_index : BOOLEAN]

InitKeyMatches ==
    /\ op = "init"
    /\ args \in KeyMatchesArgs
    /\ ret = "none"
    /\ world = NewWorld

KeyMatchesCall ==
    /\ op = "init"
    /\ op' = "key_matches"
    /\ ret' = key_matches(args.key, args.patterns, args.return_index)
    /\ UNCHANGED <<args, world>>

NextKeyMatches == KeyMatchesCall

SpecKeyMatches == InitKeyMatches /\ [][NextKeyMatches]_vars

(***************************************************************************)
(* The language of a pattern, stated apart from the matcher: the pattern   *)
(* is a list of tokens (an atom, starred or not), and ReachAfter is the    *)
(* set of key positions at which the first j tokens can end.               *)
(***************************************************************************)
RECURSIVE Tokens(_)
Tokens(pattern) ==
    IF pattern = <<>> THEN <<>>
    ELSE IF Len(pattern) >= 2 /\ pattern[2] = "*"
    THEN <<[atom |-> pattern[1], star |-> TRUE]>> \o Tokens(SubSeq(pattern, 3, Len(pattern)))
    ELSE <<[atom |-> pattern[1], star |-> FALSE]>> \o Tokens(Tail(pattern))

TokenFits(tok, c) == tok.atom = "." \/ tok.atom = c

RECURSIVE ReachAfter(_, _, _)
ReachAfter(toks, j, key) ==
    IF j = 0 THEN {0}
    ELSE LET before == ReachAfter(toks, j - 1, key)
         IN  IF toks[j].star
             THEN {k \in 0..Len(key) :
                     \E i \in before :
                        i <= k /\ \A m \in (i + 1)..k : TokenFits(toks[j], key[m])}
             ELSE {i + 1 : i \in {n \in before :
                                    n < Len(key) /\ TokenFits(toks[j], key[n + 1])}}

InLanguage(pattern, key) ==
    Len(key) \in ReachAfter(Tokens(pattern), Len(Tokens(pattern)), key)

MatchingIndices(key, patterns) ==
    {p \in 0..(Len(patterns) - 1) : InLanguage(patterns[p + 1], key)}

Minimum(S) == CHOOSE m \in S : \A n \in S : m <= n

\* C1: key_matches reports a match exactly when the whole key is in the
\* language of at least one pattern; with return_index it returns (True, p)
\* for the smallest index p of such a pattern and (False, None) when there
\* is none; 'category_id_segmaps' against ['segmap', '.*_segmaps'] gives 1.
C1_KeyMatchesFirstFullMatch ==
    op = "key_matches" =>
        LET M == MatchingIndices(args.key, args.patterns)
        IN  /\ IF args.return_index
               THEN ret = IF M = {} THEN <<FALSE, None>> ELSE <<TRUE, Minimum(M)>>
               ELSE ret = (M # {})
            /\ (/\ args.key = s_category_id_segmaps
                /\ args.patterns = default_segmap_keys
                /\ args.return_index) => ret = <<TRUE, 1>>

\* a key that extends a pattern, and a later pattern that matches it
C1_Witness ==
    /\ op = "key_matches"
    /\ args.key = s_category_id_segmaps
    /\ args.patterns = default_segmap_keys
    /\ args.return_index
    /\ ret = <<TRUE, 1>>

(***************************************************************************)
(* vis_data called in sequence, as vis_file or any other caller does.      *)
(* The inputs: keys of every role and of none; pattern lists, among them   *)
(* lists under which one key matches several roles; files with and         *)
(* without legends; arrays of two dimensions and of 1..MaxChannels         *)
(* channels.                                                               *)
(***************************************************************************)
s_legend == <<"l","e","g","e","n","d">>
s_f      == <<"f">>
s_o_png  == <<"o",".","p","n","g">>


channel_(name) == s_channel_ \o name

\* the first records of legends
record_ab   == << <<channel_(<<"a">>), <<"0">>>>, <<channel_(<<"b">>), <<"1">>>> >>
record_1    == << <<channel_(<<"1">>), <<"0">>>> >>
record_dups == << <<channel_(<<"a">>), <<"0","0">>>>, <<channel_(<<"b">>), <<"0">>>>,
                  <<<<"i","d","x">>, <<"2">>>>, <<channel_(<<"c">>), <<"x">>>>,
                  <<channel_(<<"d">>), <<>>>>, <<channel_(<<"e">>), <<"0","2">>>> >>

legend_dataset(records) == [shape |-> <<Len(records)>>, legend |-> records]
array_dataset(shape)    == [shape |-> shape, legend |-> <<>>]

file_ab   == << <<s_segcolormap, legend_dataset(<<record_ab>>)>> >>
file_1    == << <<s_legend, legend_dataset(<<record_dups, record_ab>>)>>,
                <<s_segcolormap, legend_dataset(<<record_1>>)>> >>
file_none == << <<s_legend, legend_dataset(<<record_ab>>)>>,
                <<s_segcolormap, legend_dataset(<<>>)>> >>

NoLists ==
    [rgb_keys |-> NoneOpt, flow_keys |-> NoneOpt, segmap_keys |-> NoneOpt,
     segcolormap_keys |-> NoneOpt, depth_keys |-> NoneOpt]

OverlappingLists ==
    { [NoLists EXCEPT !.rgb_keys = Some(<<s_dotstar>>)],
      [NoLists EXCEPT !.flow_keys = Some(<<s_dotstar>>)],
      [NoLists EXCEPT !.segmap_keys = Some(<<s_dotstar, s_segmap>>),
                      !.segcolormap_keys = Some(<<s_segcolormap, s_legend>>)],
      [NoLists EXCEPT !.depth_keys = Some(<<s_dotstar>>)] }

Shapes == {<<ImgH, ImgW>>} \cup {<<ImgH, ImgW, c>> : c \in 1..MaxChannels}

SaveTargets == {NoneOpt, Some(s_o_png)}

vis_data_args(key, data, full, lists, save, cv2) ==
    [key |-> key, data |-> data, full_hdf5_data |-> full, file_label |-> s_f,
     rgb_keys |-> lists.rgb_keys, flow_keys |-> lists.flow_keys,
     segmap_keys |-> lists.segmap_keys, segcolormap_keys |-> lists.segcolormap_keys,
     depth_keys |-> lists.depth_keys, save_to_file |-> save, cv2 |-> cv2]

TwoLegends == [NoLists EXCEPT !.segcolormap_keys = Some(<<s_segcolormap, s_legend>>)]

Files == {NoneOpt, Some(file_ab), Some(file_1), Some(file_none)}

VisDataArgs ==
    \* every role and none, under the default lists
    {vis_data_args(key, <<ImgH, ImgW, 3>>, NoneOpt, NoLists, save, TRUE) :
        key \in {s_colors, s_forward_flow, s_segmap, s_category_id_segmaps, s_depth, s_x},
        save \in SaveTargets}
    \cup
    \* keys that match several roles
    {vis_data_args(key, <<ImgH, ImgW, 3>>, NoneOpt, lists, save, TRUE) :
        key \in {s_colors, s_category_id_segmaps, s_depth, s_x},
        lists \in OverlappingLists,
        save \in SaveTargets}
    \cup
    \* flow without opencv-python
    {vis_data_args(key, <<ImgH, ImgW, 3>>, NoneOpt, lists, save, FALSE) :
        key \in {s_forward_flow, s_colors},
        lists \in {NoLists, [NoLists EXCEPT !.flow_keys = Some(<<s_dotstar>>)]},
        save \in SaveTargets}
    \cup
    \* segmaps of every shape, with and without a legend
    {vis_data_args(s_segmap, data, full, NoLists, save, TRUE) :
        data \in Shapes, full \in Files, save \in SaveTargets}
    \cup
    {vis_data_args(s_category_id_segmaps, <<ImgH, ImgW, 2>>, full, lists, save, TRUE) :
        full \in Files, lists \in {NoLists, TwoLegends}, save \in SaveTargets}
    \cup
    {vis_data_args(s_segmap, <<ImgH, ImgW, 2>>, Some(file_ab),
                   [NoLists EXCEPT !.segcolormap_keys = Some(<<>>)], save, TRUE) :
        save \in SaveTargets}
    \cup
    \* depth of every shape
    {vis_data_args(s_depth, data, NoneOpt, NoLists, save, TRUE) :
        data \in Shapes, save \in SaveTargets}

mode_of(a) == IF IsNone(a.save_to_file) THEN "show" ELSE "file"

InitVisData ==
    /\ op = "init"
    /\ args = <<>>
    /\ ret = "none"
    /\ world = NewWorld

VisDataCall ==
    \E a \in VisDataArgs :
        /\ world.ncalls < MaxCalls
        /\ op' = "vis_data"
        /\ args' = a
        /\ world' = vis_data(BeginCall(world, mode_of(a)), a)
        /\ ret' = world'.exc

NextVisData == VisDataCall

SpecVisData == InitVisData /\ [][NextVisData]_vars

(***************************************************************************)
(* What the claims about vis_data read from a call.                        *)
(***************************************************************************)
ListOf(o, d) == IF o = NoneOpt THEN d ELSE o[1]

Matches(key, patterns) == MatchingIndices(key, patterns) # {}

\* the first role, in the order flow, segmap, depth, rgb, whose list matches
FirstRole(a) ==
    IF      Matches(a.key, ListOf(a.flow_keys, default_flow_keys))     THEN "flow"
    ELSE IF Matches(a.key, ListOf(a.segmap_keys, default_segmap_keys)) THEN "segmap"
    ELSE IF Matches(a.key, ListOf(a.depth_keys, default_depth_keys))   THEN "depth"
    ELSE IF Matches(a.key, ListOf(a.rgb_keys, default_rgb_keys))       THEN "rgb"
    ELSE "default"

RolesMatched(a) ==
    {r \in {"flow", "segmap", "depth", "rgb"} :
        Matches(a.key, CASE r = "flow"   -> ListOf(a.flow_keys, default_flow_keys)
                         [] r = "segmap" -> ListOf(a.segmap_keys, default_segmap_keys)
                         [] r = "depth"  -> ListOf(a.depth_keys, default_depth_keys)
                         [] r = "rgb"    -> ListOf(a.rgb_keys, default_rgb_keys))}

\* C2: every vis_data call takes exactly one rendering path, that of the
\* first role in the order flow, segmap, depth, rgb whose pattern list
\* matches the key, also when the key matches several roles; a key that
\* matches no role takes the default path and raises nothing.
C2_DispatchPriority ==
    op = "vis_data" =>
        /\ Len(world.calls) = 1
        /\ world.calls[1].path = FirstRole(args)
        /\ RolesMatched(args) = {} => (world.calls[1].path = "default" /\ ret = "none")

\* a key that matches the depth and the rgb lists is rendered as depth
C2_Witness ==
    /\ op = "vis_data"
    /\ {"depth", "rgb"} \subseteq RolesMatched(args)
    /\ world.calls[1].path = "depth"

(***************************************************************************)
(* The labels of a segmap's channels, read from the legend.                *)
(***************************************************************************)
RECURSIVE DecimalValue(_, _)
DecimalValue(v, acc) ==
    IF v = <<>> THEN acc ELSE DecimalValue(Tail(v), 10 * acc + DigitValue(v[1]))

\* the value v is a digit string that denotes i
Denotes(v, i) ==
    /\ v # <<>>
    /\ \A k \in 1..Len(v) : \E d \in 1..10 : Digits[d] = v[k]
    /\ DecimalValue(v, 0) = i

\* the legend vis_data consults for the call, <<>> when it consults none
ConsultedRecord(a) ==
    LET segmaps == ListOf(a.segmap_keys, default_segmap_keys)
        legends == ListOf(a.segcolormap_keys, default_segcolormap_keys)
        p       == Minimum(MatchingIndices(a.key, segmaps))
    IN  IF /\ p < Len(legends)
           /\ a.full_hdf5_data # NoneOpt
           /\ \E k \in 1..Len(a.full_hdf5_data[1]) :
                 /\ a.full_hdf5_data[1][k][1] = legends[p + 1]
                 /\ a.full_hdf5_data[1][k][2].legend # <<>>
        THEN LET k == CHOOSE k \in 1..Len(a.full_hdf5_data[1]) :
                                a.full_hdf5_data[1][k][1] = legends[p + 1]
             IN  a.full_hdf5_data[1][k][2].legend[1]
        ELSE <<>>

\* the entries 'channel_N' of the record whose value denotes channel i
EntriesFor(record, i) ==
    {j \in 1..Len(record) :
        /\ Len(record[j][1]) >= 8
        /\ SubSeq(record[j][1], 1, 8) = <<"c","h","a","n","n","e","l","_">>
        /\ Denotes(record[j][2], i)}

ExpectedLabel(a, i) ==
    LET record  == ConsultedRecord(a)
        entries == EntriesFor(record, i)
    IN  IF entries = {} THEN str(i)
        ELSE LET j == CHOOSE j \in entries : \A k \in entries : k <= j
             IN  SubSeq(record[j][1], 9, Len(record[j][1]))

NumChannels(a) == IF Len(a.data) = 2 THEN 1 ELSE a.data[3]

C5_OnePlotPerImage ==
    (op = "vis_data" /\ world.modes \subseteq {"show"}) =>
        /\ world.created = world.rendered
        /\ \A k \in 1..Len(world.figs) : world.figs[k] = 1

\* C6: after any sequence of file-mode vis_data calls the number of open
\* figures is what it was before the sequence (none), also when the flow
\* path fails with ImportError.
C6_FiguresReleased ==
    (op = "vis_data" /\ world.modes \subseteq {"file"}) => Len(world.figs) = 0

\* C10: in file mode, a segmap call with more than one channel writes the
\* channels to pairwise distinct files.
C10_DistinctChannelFiles ==
    (/\ op = "vis_data"
     /\ world.calls[1].path = "segmap"
     /\ args.save_to_file # NoneOpt
     /\ NumChannels(args) > 1) =>
        \A i, j \in 1..Len(world.saved) : i # j => world.saved[i] # world.saved[j]

(***************************************************************************)
(* vis_file called on a path: a file whose datasets have every shape       *)
(* below, a directory, or nothing.                                         *)
(***************************************************************************)
s_d_f_hdf5 == <<"d","/","f",".","h","d","f","5">>
s_d_e_hdf5 == <<"d","/","e",".","h","d","f","5">>
s_d_m_hdf5 == <<"d","/","m",".","h","d","f","5">>
s_out      == <<"o","u","t">>

FileShapes ==
    { <<ImgH, ImgW>>, <<ImgH, ImgW, 3>>, <<2, ImgW>>, <<2, ImgH, ImgW>>, <<2, ImgH, ImgW, 3>> }

\* the datasets of a file, in the order of their names
FileContents ==
    { (IF c = <<>> THEN <<>> ELSE << <<s_category_id_segmaps, array_dataset(c)>> >>)
        \o (IF r = <<>> THEN <<>> ELSE << <<s_colors, array_dataset(r)>> >>)
        \o (IF d = <<>> THEN <<>> ELSE << <<s_depth, array_dataset(d)>> >>) :
        c \in FileShapes \cup {<<>>}, r \in FileShapes \cup {<<>>},
        d \in FileShapes \cup {<<>>} }

dir_entry     == [isfile |-> FALSE, content |-> <<>>]
file_entry(c) == [isfile |-> TRUE, content |-> c]

vis_file_args(path, fs, keys_to_visualize, lists, save_to_path) ==
    [path |-> path, fs |-> fs, keys_to_visualize |-> keys_to_visualize,
     rgb_keys |-> lists.rgb_keys, flow_keys |-> lists.flow_keys,
     segmap_keys |-> lists.segmap_keys, segcolormap_keys |-> lists.segcolormap_keys,
     depth_keys |-> lists.depth_keys, save_to_path |-> save_to_path, cv2 |-> TRUE]

VisFileArgs ==
    {vis_file_args(s_d_f_hdf5, (s_d_f_hdf5 :> file_entry(c)) @@ (s_d_e_hdf5 :> dir_entry),
                   keys, NoLists, save) :
        c \in FileContents,
        keys \in {NoneOpt, Some(<<s_colors, s_any_segmaps>>)},
        save \in {NoneOpt, Some(s_out)}}
    \cup
    {vis_file_args(path, (s_d_e_hdf5 :> dir_entry), NoneOpt, NoLists, save) :
        path \in {s_d_e_hdf5, s_d_m_hdf5}, save \in {NoneOpt, Some(s_out)}}

InitVisFile ==
    /\ op = "init"
    /\ args = <<>>
    /\ ret = "none"
    /\ world = NewWorld

VisFileCall ==
    \E a \in VisFileArgs :
        /\ world.ncalls < MaxFileCalls
        /\ op' = "vis_file"
        /\ args' = a
        /\ world' = vis_file(BeginCall(world, IF IsNone(a.save_to_path) THEN "show" ELSE "file"), a)
        /\ ret' = world'.exc

NextVisFile == VisFileCall

SpecVisFile == InitVisFile /\ [][NextVisFile]_vars

\* the vis_data calls of the run that rendered key
CallsFor(key) ==
    LET idx == {k \in 1..Len(world.calls) : world.calls[k].key = key}
    IN  [n \in 1..Cardinality(idx) |->
            world.calls[CHOOSE k \in idx : Cardinality({j \in idx : j <= k}) = n]]

IsStereo(shape) == Len(shape) >= 3 /\ shape[1] = 2

\* '<save_to_path>/<parentfolder>_<basename>_<key><suffix>.png' for d/f.hdf5
ExpectedName(a, key, suffix) ==
    IF a.save_to_path = NoneOpt THEN NoneOpt
    ELSE Some(a.save_to_path[1] \o <<"/","d","_","f","_">> \o key \o suffix
                \o <<".","p","n","g">>)

\* C3: vis_file renders an array whose first dimension is 2 and that has
\* at least 3 dimensions with exactly two vis_data calls, the left half to
\* '<parentfolder>_<basename>_<key>_left.png' titled ' (left)' and the
\* right half to '<parentfolder>_<basename>_<key>_right.png' titled
\* ' (right)'; every other array with exactly one call and the unsuffixed
\* name.
C3_StereoHalves ==
    (op = "vis_file" /\ args.path = s_d_f_hdf5) =>
        \A k \in 1..Len(args.fs[s_d_f_hdf5].content) :
            LET key   == args.fs[s_d_f_hdf5].content[k][1]
                shape == args.fs[s_d_f_hdf5].content[k][2].shape
                calls == CallsFor(key)
            IN  (args.keys_to_visualize = NoneOpt \/ key # s_depth) =>
                IF IsStereo(shape)
                THEN /\ Len(calls) = 2
                     /\ calls[1].save_to_file = ExpectedName(args, key, <<"_","l","e","f","t">>)
                     /\ calls[2].save_to_file = ExpectedName(args, key, <<"_","r","i","g","h","t">>)
                     /\ calls[1].file_label = <<"f",".","h","d","f","5"," ","(","l","e","f","t",")">>
                     /\ calls[2].file_label = <<"f",".","h","d","f","5"," ","(","r","i","g","h","t",")">>
                ELSE /\ Len(calls) = 1
                     /\ calls[1].save_to_file = ExpectedName(args, key, <<>>)
                     /\ calls[1].file_label = <<"f",".","h","d","f","5">>

(***************************************************************************)
(* create_image_grid called on one main image and three thumbnails.  The   *)
(* main image has one pixel of value a and the others of value b, and an   *)
(* opaque alpha channel when it has one; a thumbnail is of one colour.     *)
(***************************************************************************)
main_image(h, w, c, a, b) ==
    [h |-> h, w |-> w, c |-> c,
     px |-> [q \in Pixels(h, w, c) |->
                IF q[3] = 4 THEN 255
                ELSE IF q[1] = 1 /\ q[2] = 1 THEN a ELSE b]]

plain_image(h, w, t) ==
    [h |-> h, w |-> w, c |-> 3, px |-> [q \in Pixels(h, w, 3) |-> t]]

s_final_png == <<"f","i","n","a","l",".","p","n","g">>

GridArgs ==
    { [images |-> << main_image(h, w, c, a, b), plain_image(h, w, t[1]),
                     plain_image(h, w, t[2]), plain_image(h, w, t[3]) >>,
       colours |-> t,
       save_file |-> s_final_png] :
        h \in {3, 4}, w \in {3, 5}, c \in {3, 4},
        a \in {0, 1, 2, 255}, b \in {0, 1, 2, 255},
        t \in {1, 9, 200} \X {1, 9, 200} \X {1, 9, 200} }

InitGrid ==
    /\ op = "init"
    /\ args \in GridArgs
    /\ ret = "none"
    /\ world = NewWorld

CreateImageGridCall ==
    /\ op = "init"
    /\ op' = "create_image_grid"
    /\ world' = create_image_grid(BeginCall(world, "file"), args.images, args.save_file)
    /\ ret' = world'.exc
    /\ UNCHANGED args

NextGrid == CreateImageGridCall

SpecGrid == InitGrid /\ [][NextGrid]_vars

\* the colour of thumbnail i (from 0) as an 8-bit image
ThumbnailColour(i) ==
    IF args.colours[i + 1] <= 1 THEN 255 * args.colours[i + 1] ELSE args.colours[i + 1]

\* C9: for a main image of shape H x W x 4 with integer values in [0,255]
\* and three thumbnails of shape H x W x 3, the grid has shape
\* (H + H//3, W, 3), its rows [0,H) are the first three channels of the
\* main image unmodified, also when the largest value of the main image is
\* 0 or 1, thumbnail i fills rows [H, H + H//3) and columns
\* [i*(W//3), (i+1)*(W//3)), and the rest of the band is white.
C9_GridLayout ==
    (op = "create_image_grid" /\ args.images[1].c = 4) =>
        LET main == args.images[1]
            grid == world.grid
        IN  /\ grid.h = main.h + main.h \div 3
            /\ grid.w = main.w
            /\ grid.c = 3
            /\ DOMAIN grid.px = (1..grid.h) \X (1..grid.w) \X (1..3)
            /\ \A q \in DOMAIN grid.px :
                  IF q[1] <= main.h
                  THEN grid.px[q] = main.px[q]
                  ELSE LET slot == (q[2] - 1) \div (main.w \div 3)
                       IN  grid.px[q] = IF slot < 3 THEN ThumbnailColour(slot) ELSE 255

(***************************************************************************)
(* One run of cli.  The input directory holds any of two complete HDF5     *)
(* files and a directory whose name ends in .hdf5; --hdf5_paths, when      *)
(* given, names up to two paths, among them one that does not exist.       *)
(***************************************************************************)
s_d       == <<"d">>
s_d_s_g_hdf5 == <<"d","/","s","/","g",".","h","d","f","5">>

complete_content ==
    << <<s_category_id_segmaps, array_dataset(<<ImgH, ImgW>>)>>,
       <<s_colors, array_dataset(<<ImgH, ImgW, 3>>)>>,
       <<s_depth, array_dataset(<<ImgH, ImgW>>)>>,
       <<s_normals, array_dataset(<<ImgH, ImgW, 3>>)>> >>

CliDirectory == {s_d_f_hdf5, s_d_s_g_hdf5, s_d_e_hdf5}

cli_fs(paths) ==
    [path \in paths |-> IF path = s_d_e_hdf5 THEN dir_entry
                        ELSE file_entry(complete_content)]

Orderings(S) ==
    {q \in SeqsUpTo(S, Cardinality(S)) : Len(q) = Cardinality(S) /\ Range(q) = S}

\* random.sample(files, count): count elements of files, without replacement
Samples(files, count) ==
    {q \in SeqsUpTo(Range(files), count) :
        Len(q) = count /\ Cardinality(Range(q)) = count}

ExplicitPaths ==
    {NoneOpt} \cup
    {Some(q) : q \in SeqsUpTo({s_d_f_hdf5, s_d_s_g_hdf5, s_d_m_hdf5}, 2) \ {<<>>}}

cli_args(fs, hdf5_files, count, hdf5_paths, sample) ==
    [input_dir |-> Some(s_d), fs |-> fs, hdf5_files |-> hdf5_files, count |-> count,
     hdf5_paths |-> hdf5_paths, sample |-> sample, keys |-> all_default_keys,
     rgb_keys |-> Some(default_rgb_keys), flow_keys |-> Some(default_flow_keys),
     segmap_keys |-> Some(default_segmap_keys),
     segcolormap_keys |-> Some(default_segcolormap_keys),
     depth_keys |-> Some(default_depth_keys), save |-> s_out, cv2 |-> TRUE]

InitCli ==
    /\ op = "init"
    /\ args = <<>>
    /\ ret = "none"
    /\ world = NewWorld

CliCall ==
    /\ op = "init"
    /\ \E present \in SUBSET CliDirectory, count \in 0..MaxCount, explicit \in ExplicitPaths :
       \E hdf5_files \in Orderings(present) :
       \E sample \in IF Len(hdf5_files) < count THEN {<<>>} ELSE Samples(hdf5_files, count) :
          LET a == cli_args(cli_fs(present), hdf5_files, count, explicit, sample)
          IN  /\ args' = a
              /\ world' = cli(BeginCall(world, "file"), a, sample)
    /\ op' = "cli"
    /\ ret' = world'.exc

NextCli == CliCall

SpecCli == InitCli /\ [][NextCli]_vars

\* the list of paths the run goes through, <<>> when there is none
PathsOfRun ==
    IF Len(args.hdf5_files) < args.count
    THEN (IF args.hdf5_paths = NoneOpt THEN <<>> ELSE args.hdf5_paths[1])
    ELSE args.sample

IsRegularFile(path) == path \in DOMAIN args.fs /\ args.fs[path].isfile

\* 'out/<parentfolder>_<basename>.png' of the two files of the directory
GridFileOf(path) ==
    IF path = s_d_f_hdf5 THEN <<"o","u","t","/","d","_","f",".","p","n","g">>
    ELSE <<"o","u","t","/","s","_","g",".","p","n","g">>

\* C7: a path of the list that does not exist, or is no regular file, is
\* skipped and the run continues: every regular file that comes after it
\* in the list is passed to vis_file and has its grid composite written.
C7_MissingPathSkipped ==
    op = "cli" =>
        \A i, j \in 1..Len(PathsOfRun) :
            (i < j /\ ~IsRegularFile(PathsOfRun[i]) /\ IsRegularFile(PathsOfRun[j])) =>
                /\ \E k \in 1..Len(world.visited) : world.visited[k] = PathsOfRun[j]
                /\ GridFileOf(PathsOfRun[j]) \in world.disk

\* C8: with fewer HDF5 files in the input directory than the requested
\* count, vis_file is called for no path, --hdf5_paths given or not, and
\* the run ends without an exception.
C8_ShortageProcessesNothing ==
    (op = "cli" /\ Len(args.hdf5_files) < args.count) =>
        /\ world.visited = <<>>
        /\ ret = "none"

=============================================================================
